---- MODULE Spec2Model ----
\* Model of the MLflow-backed promotion controller
\* (src/src/model_registry.py, class ModelRegistry) and of the serving
\* cache (src/src/predict.py).
\* 
\* Stage names are those of the source: "None" is the spec's Unstaged,
\* "Production" the spec's Deployed, "Archived" the spec's Archived.
\* Every call on the registry store (client.* / mlflow.*) is one atomic
\* step and may raise; what lies between two store calls is local to the
\* caller and is folded into the step of the store call before it.
EXTENDS Integers, Sequences, FiniteSets, TLC

\* ------------------------------------------------------------------ bounds
MaxVersions == 3      \* versions the registry may hold
NumRuns == 3          \* training runs known to the tracking store
MaxMetric == 2        \* metric values range over 0..MaxMetric

Procs == {1, 2}       \* callers of the promotion controller
RunIds == 1..NumRuns
MetricNames == {"auc", "f1"}
Stages == {"None", "Production", "Archived"}

\* Optional values: None is the empty tuple, Some(x) a one-element tuple.
None == <<>>
Some(x) == <<x>>

\* run.data.metrics of a training run: a mapping metric name -> value, fixed
\* when the run is logged.  Runs 1 and 2 carry auc (1 and 2), run 3 carries
\* no auc; odd runs carry f1.
HasMetric(r, m) == IF m = "auc" THEN r % 3 # 0 ELSE r % 2 = 1
MetricValue(r, m) == IF m = "auc" THEN r % 3 ELSE 3 - (r % 3)
RunMetrics(r) == [m \in {n \in MetricNames : HasMetric(r, n)} |-> MetricValue(r, m)]

VARIABLES
    registry,   \* registered versions of MODEL_NAME: registry[v] = [stage, run_id]
    ctl,        \* per caller of ModelRegistry: position and locals of its call
    cmp,        \* inputs and result of one evaluation of the comparison policy
    skipped_archive, \* history: promote_to_production was called with
                     \* archive_existing=False at least once
    model,      \* predict.py global `model`: None or Some(version whose artifact it is)
    model_info, \* predict.py global `model_info`: [name, version, stage]
    srv         \* per serving thread: position and locals of its request

serving == <<model, model_info, srv>>
vars == <<registry, ctl, cmp, skipped_archive, model, model_info, srv>>

\* ------------------------------------------------------- the registry store
Versions(reg) == 1..Len(reg)
InStage(reg, stage) == {v \in Versions(reg) : reg[v].stage = stage}
MaxOf(S) == CHOOSE x \in S : \A y \in S : y <= x

\* client.get_latest_versions(name, stages=[stage]): MLflow returns, for each
\* requested stage, the one version with the highest number in that stage.
get_latest_versions(reg, stage) ==
    IF InStage(reg, stage) = {} THEN <<>> ELSE <<MaxOf(InStage(reg, stage))>>

\* client.transition_model_version_stage(name, version, stage): any stage may
\* follow any stage; an unknown version raises (see VersionExists).
VersionExists(reg, v) == v \in Versions(reg)
transition_model_version_stage(reg, v, stage) == [reg EXCEPT ![v].stage = stage]

\* mlflow.register_model(model_uri, name): the next version number, stage None.
register_version(reg, run_id) == Append(reg, [stage |-> "None", run_id |-> run_id])

\* ------------------------------------------------------ comparison policy
\* Variant of compare in which a tie counts as better (>= and <=).
compare_ties_win(cand, inc, metric_name, higher_is_better) ==
    IF metric_name \notin DOMAIN cand THEN FALSE
    ELSE IF inc = None THEN TRUE
    ELSE IF metric_name \notin DOMAIN inc[1] THEN TRUE
    ELSE IF higher_is_better THEN cand[metric_name] >= inc[1][metric_name]
    ELSE cand[metric_name] <= inc[1][metric_name]

\* ModelRegistry.compare_models on values: cand is the candidate run's metrics
\* mapping, inc is None or Some(metrics mapping of the Production version).
compare(cand, inc, metric_name, higher_is_better) ==
    IF metric_name \notin DOMAIN cand THEN FALSE
    ELSE IF inc = None THEN TRUE
    ELSE IF metric_name \notin DOMAIN inc[1] THEN TRUE
    ELSE IF higher_is_better THEN cand[metric_name] > inc[1][metric_name]
    ELSE cand[metric_name] < inc[1][metric_name]

\* ModelRegistry.get_production_model_metrics when no store call raises.
get_production_model_metrics(reg) ==
    LET prod_versions == get_latest_versions(reg, "Production")
    IN  IF prod_versions = <<>> THEN None
        ELSE Some(RunMetrics(reg[prod_versions[1]].run_id))

\* ------------------------------------------------------------ caller state
\* Locals of one call.  History only: `failed` (a store call failed during the
\* call), `pre` (the registry when the call began) and `ended_at` (the step at
\* which promote_to_production ended, "none" while it has not).
IdleCtl ==
    [pc |-> "idle", op |-> "none", run_id |-> 0, metric_name |-> "auc",
     higher_is_better |-> TRUE, version |-> 0, archive_existing |-> TRUE,
     prod_run_id |-> 0, prod_metrics |-> None, is_better |-> FALSE,
     to_archive |-> <<>>, success |-> FALSE, ret |-> None,
     failed |-> FALSE, pre |-> <<>>, ended_at |-> "none"]

IdleCmp == [cand |-> <<>>, inc |-> None, metric_name |-> "auc",
            higher_is_better |-> TRUE, result |-> None]

\* ----------------------------------------------------------- serving state
Threads == {1, 2}     \* threads of the serving process (FastAPI thread pool)

\* predict.py lines 35-36 and the identities load_production_model assigns.
\* model_info["version"] is kept as a number: 0 stands for the strings the
\* source uses when no registry version is named ("unknown", "0", "0.0.0");
\* model_info["name"] tells these identities apart.
UnknownInfo == [name |-> "unknown", version |-> 0, stage |-> "unknown"]
NoneInfo == [name |-> "none", version |-> 0, stage |-> "none"]
FallbackInfo == [name |-> "fallback", version |-> 0, stage |-> "error"]
VersionInfo(v, stage) == [name |-> "MODEL_NAME", version |-> v, stage |-> stage]

\* Locals of one request.  Two fields are history only: `wrote` is the
\* identity this request's load_production_model assigned to model_info, and
\* `prev` is what the /reload-model request this thread made just before
\* assigned (None when the previous request was not a reload).
IdleSrv ==
    [pc |-> "idle", op |-> "none", version |-> 0, loaded |-> 0, stage |-> "none",
     used |-> 0, kind |-> "none", name |-> "none", resp_version |-> 0,
     probability |-> "none", wrote |-> None, prev |-> None]

\* The serving process as it is created: the globals of lines 35-36, and the
\* startup handler (lines 92-97) still to run, on one thread, before any
\* request is taken.
StartupThread == CHOOSE t \in Threads : \A u \in Threads : t <= u
ServingInit ==
    /\ model = None
    /\ model_info = UnknownInfo
    /\ srv = [t \in Threads |->
                IF t = StartupThread THEN [IdleSrv EXCEPT !.pc = "boot"] ELSE IdleSrv]

\* The startup handler has completed: requests are taken from then on.
Started == \A t \in Threads : srv[t].pc # "boot" /\ srv[t].op # "startup"

Init ==
    /\ registry = <<>>
    /\ ctl = [p \in Procs |-> IdleCtl]
    /\ cmp = IdleCmp
    /\ skipped_archive = FALSE
    /\ ServingInit

AllIdle == \A p \in Procs : ctl[p].pc = "idle"
Registering == Cardinality({p \in Procs : ctl[p].pc = "register"})

\* ---------------------------------------------------- auto_promote_if_better
\* Entry: auto_promote_if_better(run_id, metric_name, higher_is_better).
AutoPromoteIfBetter(p, run_id, metric_name, hib) ==
    /\ ctl[p].pc = "idle"
    /\ Len(registry) + Registering < MaxVersions
    /\ ctl' = [ctl EXCEPT ![p] = [IdleCtl EXCEPT !.pc = "register", !.op = "auto",
                    !.run_id = run_id, !.metric_name = metric_name,
                    !.higher_is_better = hib, !.pre = registry]]
    /\ UNCHANGED <<registry, cmp, skipped_archive, serving>>

\* register_model: mlflow.register_model; a store error propagates to the caller.
RegisterModel(p) ==
    /\ ctl[p].pc = "register"
    /\ \/ /\ registry' = register_version(registry, ctl[p].run_id)
          /\ ctl' = [ctl EXCEPT ![p].pc = "cand_run", ![p].version = Len(registry) + 1]
       \/ /\ ctl' = [ctl EXCEPT ![p].pc = "raised", ![p].failed = TRUE]
          /\ UNCHANGED registry
    /\ UNCHANGED <<cmp, skipped_archive, serving>>

\* Variant of AfterCompare that promotes the new version whatever the
\* comparison said.
AfterCompare_promotes_always(c, prod_metrics) ==
    LET b == compare(RunMetrics(c.run_id), prod_metrics, c.metric_name, c.higher_is_better)
    IN  [c EXCEPT !.prod_metrics = prod_metrics, !.is_better = b,
                  !.pc = "promote_list", !.ret = None]

\* What the caller does once is_better is known (lines 217-230): promote the
\* new version with archive_existing at its default, or return None.
AfterCompare(c, prod_metrics) ==
    LET b == compare(RunMetrics(c.run_id), prod_metrics, c.metric_name, c.higher_is_better)
    IN  [c EXCEPT !.prod_metrics = prod_metrics, !.is_better = b,
                  !.pc = IF b THEN "promote_list" ELSE "ret",
                  !.ret = None]

\* compare_models, first store call: client.get_run(candidate_run_id).
CandidateRun(p) ==
    /\ ctl[p].pc = "cand_run"
    /\ \/ ctl' = [ctl EXCEPT ![p] =
                IF ctl[p].metric_name \notin DOMAIN RunMetrics(ctl[p].run_id)
                THEN [ctl[p] EXCEPT !.is_better = FALSE, !.pc = "ret", !.ret = None]
                ELSE [ctl[p] EXCEPT !.pc = "prod_list"]]
       \/ ctl' = [ctl EXCEPT ![p].pc = "raised", ![p].failed = TRUE]
    /\ UNCHANGED <<registry, cmp, skipped_archive, serving>>

\* get_production_model_metrics, first store call: get_latest_versions.
\* An exception is caught and the method returns None (lines 81-83).
ProductionList(p) ==
    /\ ctl[p].pc = "prod_list"
    /\ \/ LET prod_versions == get_latest_versions(registry, "Production")
          IN  ctl' = [ctl EXCEPT ![p] =
                IF prod_versions = <<>>
                THEN AfterCompare(ctl[p], None)
                ELSE [ctl[p] EXCEPT !.pc = "prod_run",
                                    !.prod_run_id = registry[prod_versions[1]].run_id]]
       \/ ctl' = [ctl EXCEPT ![p] =
                AfterCompare([ctl[p] EXCEPT !.failed = TRUE], None)]
    /\ UNCHANGED <<registry, cmp, skipped_archive, serving>>

\* get_production_model_metrics, second store call: client.get_run.
ProductionRun(p) ==
    /\ ctl[p].pc = "prod_run"
    /\ \/ ctl' = [ctl EXCEPT ![p] =
                AfterCompare(ctl[p], Some(RunMetrics(ctl[p].prod_run_id)))]
       \/ ctl' = [ctl EXCEPT ![p] =
                AfterCompare([ctl[p] EXCEPT !.failed = TRUE], None)]
    /\ UNCHANGED <<registry, cmp, skipped_archive, serving>>

\* ----------------------------------------------------- promote_to_production
\* Entry: promote_to_production(version, archive_existing) called directly.
PromoteToProduction(p, version, archive_existing) ==
    /\ ctl[p].pc = "idle"
    /\ ctl' = [ctl EXCEPT ![p] = [IdleCtl EXCEPT !.op = "promote",
                    !.pc = IF archive_existing THEN "promote_list" ELSE "promote_deploy",
                    !.version = version, !.archive_existing = archive_existing,
                    !.pre = registry]]
    /\ skipped_archive' = (skipped_archive \/ ~archive_existing)
    /\ UNCHANGED <<registry, cmp, serving>>

\* Variant of PromoteDone in which auto_promote_if_better returns the version
\* without looking at `success`.
PromoteDone_always_version(c, success) ==
    [c EXCEPT !.pc = "ret", !.success = success, !.to_archive = <<>>,
              !.failed = c.failed \/ ~success, !.ended_at = c.pc,
              !.ret = IF c.op = "auto" THEN Some(c.version) ELSE None]

\* promote_to_production returns `success`; inside auto_promote_if_better the
\* caller then returns the version or None (lines 218-230).
PromoteDone(c, success) ==
    [c EXCEPT !.pc = "ret", !.success = success, !.to_archive = <<>>,
              !.failed = c.failed \/ ~success, !.ended_at = c.pc,
              !.ret = IF c.op = "auto" /\ success THEN Some(c.version) ELSE None]

\* Variant of PromoteList that goes on to the promotion without listing, and
\* so without archiving, the Production versions.
PromoteList_no_archive(p) ==
    /\ ctl[p].pc = "promote_list"
    /\ ctl' = [ctl EXCEPT ![p].pc = "promote_deploy"]
    /\ UNCHANGED <<registry, cmp, skipped_archive, serving>>

\* client.get_latest_versions(stages=["Production"]) at lines 154-157.
PromoteList(p) ==
    /\ ctl[p].pc = "promote_list"
    /\ \/ LET prod_versions == get_latest_versions(registry, "Production")
          IN  ctl' = [ctl EXCEPT ![p].to_archive = prod_versions,
                                 ![p].pc = IF prod_versions = <<>> THEN "promote_deploy"
                                           ELSE "promote_archive"]
       \/ ctl' = [ctl EXCEPT ![p] = PromoteDone(ctl[p], FALSE)]
    /\ UNCHANGED <<registry, cmp, skipped_archive, serving>>

\* Variant of PromoteArchive that goes through the loop without the
\* transition to Archived.
PromoteArchive_keeps_stage(p) ==
    /\ ctl[p].pc = "promote_archive"
    /\ ctl' = [ctl EXCEPT ![p].to_archive = Tail(ctl[p].to_archive),
                          ![p].pc = IF Tail(ctl[p].to_archive) = <<>>
                                    THEN "promote_deploy" ELSE "promote_archive"]
    /\ UNCHANGED <<registry, cmp, skipped_archive, serving>>

\* One iteration of the archiving loop (lines 159-165).
PromoteArchive(p) ==
    /\ ctl[p].pc = "promote_archive"
    /\ \/ /\ registry' = transition_model_version_stage(
                            registry, Head(ctl[p].to_archive), "Archived")
          /\ ctl' = [ctl EXCEPT ![p].to_archive = Tail(ctl[p].to_archive),
                                ![p].pc = IF Tail(ctl[p].to_archive) = <<>>
                                          THEN "promote_deploy" ELSE "promote_archive"]
       \/ /\ ctl' = [ctl EXCEPT ![p] = PromoteDone(ctl[p], FALSE)]
          /\ UNCHANGED registry
    /\ UNCHANGED <<cmp, skipped_archive, serving>>

\* Variant of PromoteDeploy that, when the transition fails, puts the versions
\* archived by this call back into Production.
PromoteDeploy_rollback(p) ==
    /\ ctl[p].pc = "promote_deploy"
    /\ \/ /\ VersionExists(registry, ctl[p].version)
          /\ registry' = transition_model_version_stage(
                            registry, ctl[p].version, "Production")
          /\ ctl' = [ctl EXCEPT ![p] = PromoteDone(ctl[p], TRUE)]
       \/ /\ ctl' = [ctl EXCEPT ![p] = PromoteDone(ctl[p], FALSE)]
          /\ registry' = [w \in Versions(registry) |->
                IF w \in Versions(ctl[p].pre) /\ ctl[p].pre[w].stage = "Production"
                THEN [registry[w] EXCEPT !.stage = "Production"] ELSE registry[w]]
    /\ UNCHANGED <<cmp, skipped_archive, serving>>

\* Variant of PromoteDeploy that passes stage "Archived" to the transition.
PromoteDeploy_wrong_stage(p) ==
    /\ ctl[p].pc = "promote_deploy"
    /\ \/ /\ VersionExists(registry, ctl[p].version)
          /\ registry' = transition_model_version_stage(
                            registry, ctl[p].version, "Archived")
          /\ ctl' = [ctl EXCEPT ![p] = PromoteDone(ctl[p], TRUE)]
       \/ /\ ctl' = [ctl EXCEPT ![p] = PromoteDone(ctl[p], FALSE)]
          /\ UNCHANGED registry
    /\ UNCHANGED <<cmp, skipped_archive, serving>>

\* The transition of `version` to Production (lines 169-176); an unknown
\* version or a store error raises and the method returns False.
PromoteDeploy(p) ==
    /\ ctl[p].pc = "promote_deploy"
    /\ \/ /\ VersionExists(registry, ctl[p].version)
          /\ registry' = transition_model_version_stage(
                            registry, ctl[p].version, "Production")
          /\ ctl' = [ctl EXCEPT ![p] = PromoteDone(ctl[p], TRUE)]
       \/ /\ ctl' = [ctl EXCEPT ![p] = PromoteDone(ctl[p], FALSE)]
          /\ UNCHANGED registry
    /\ UNCHANGED <<cmp, skipped_archive, serving>>

\* The call has returned (or raised) and the caller is free for the next call.
Return(p) ==
    /\ ctl[p].pc \in {"ret", "raised"}
    /\ ctl' = [ctl EXCEPT ![p] = IdleCtl]
    /\ UNCHANGED <<registry, cmp, skipped_archive, serving>>

\* ------------------------------------------------------ load_production_model
SrvGoto(t, pc) == srv' = [srv EXCEPT ![t].pc = pc]
AfterLoad(t) ==
    IF srv[t].op = "predict" THEN "p_check"
    ELSE IF srv[t].op = "reload" THEN "r_info"
    ELSE "done"

\* startup_event (lines 92-97): load_production_model() once, at process start.
StartupEvent(t) ==
    /\ srv[t].pc = "boot"
    /\ srv' = [srv EXCEPT ![t] = [IdleSrv EXCEPT !.op = "startup", !.pc = "l_list"]]
    /\ UNCHANGED <<registry, ctl, cmp, skipped_archive, model, model_info>>

\* Variant of Predict that answers from the globals as they are, without
\* calling load_production_model first.
Predict_no_reload(t) ==
    /\ srv[t].pc = "idle" /\ Started
    /\ srv' = [srv EXCEPT ![t] = [IdleSrv EXCEPT !.op = "predict", !.pc = "p_check",
                                                  !.prev = srv[t].prev]]
    /\ UNCHANGED <<registry, ctl, cmp, skipped_archive, model, model_info>>

\* Entry: POST /predict; its first statement is load_production_model().
Predict(t) ==
    /\ srv[t].pc = "idle" /\ Started
    /\ srv' = [srv EXCEPT ![t] = [IdleSrv EXCEPT !.op = "predict", !.pc = "l_list",
                                                  !.prev = srv[t].prev]]
    /\ UNCHANGED <<registry, ctl, cmp, skipped_archive, model, model_info>>

\* Entry: POST /reload-model.
ReloadModel(t) ==
    /\ srv[t].pc = "idle" /\ Started
    /\ srv' = [srv EXCEPT ![t] = [IdleSrv EXCEPT !.op = "reload", !.pc = "l_list"]]
    /\ UNCHANGED <<registry, ctl, cmp, skipped_archive, model, model_info>>

\* client.get_latest_versions(MODEL_NAME, stages=["Production"]) at line 55.
LoadList(t) ==
    /\ srv[t].pc = "l_list"
    /\ \/ LET prod_models == get_latest_versions(registry, "Production")
          IN  srv' = [srv EXCEPT ![t] =
                IF prod_models = <<>>
                THEN [srv[t] EXCEPT !.pc = "l_search"]
                ELSE [srv[t] EXCEPT !.pc = "l_load", !.version = prod_models[1],
                                    !.stage = "Production"]]
       \/ SrvGoto(t, "l_except")
    /\ UNCHANGED <<registry, ctl, cmp, skipped_archive, model, model_info>>

\* Variant of LoadSearch that takes the lowest version number.
LoadSearch_lowest(t) ==
    /\ srv[t].pc = "l_search"
    /\ \/ srv' = [srv EXCEPT ![t] =
                IF Versions(registry) # {}
                THEN [srv[t] EXCEPT !.pc = "l_load", !.version = 1, !.stage = "None"]
                ELSE [srv[t] EXCEPT !.pc = "l_info_none"]]
       \/ SrvGoto(t, "l_except")
    /\ UNCHANGED <<registry, ctl, cmp, skipped_archive, model, model_info>>

\* client.search_model_versions at line 60 and the choice of the highest
\* version number at line 62.
LoadSearch(t) ==
    /\ srv[t].pc = "l_search"
    /\ \/ srv' = [srv EXCEPT ![t] =
                IF Versions(registry) # {}
                THEN [srv[t] EXCEPT !.pc = "l_load", !.version = MaxOf(Versions(registry)),
                                    !.stage = "None"]
                ELSE [srv[t] EXCEPT !.pc = "l_info_none"]]
       \/ SrvGoto(t, "l_except")
    /\ UNCHANGED <<registry, ctl, cmp, skipped_archive, model, model_info>>

\* mlflow.pyfunc.load_model(model_uri).  "models:/NAME/Production" (line 75)
\* is resolved by the store when the artifact is loaded, to the latest version
\* then in Production; "models:/NAME/<version>" (line 63) names the version.
\* No such version, or a store or artifact error, raises.
ResolveUri(reg, stage, version) ==
    IF stage = "Production" THEN get_latest_versions(reg, "Production")
    ELSE IF VersionExists(reg, version) THEN <<version>> ELSE <<>>

LoadModel(t) ==
    /\ srv[t].pc = "l_load"
    /\ \/ /\ ResolveUri(registry, srv[t].stage, srv[t].version) # <<>>
          /\ srv' = [srv EXCEPT ![t].pc = "l_set_model",
                       ![t].loaded = ResolveUri(registry, srv[t].stage, srv[t].version)[1]]
       \/ SrvGoto(t, "l_except")
    /\ UNCHANGED <<registry, ctl, cmp, skipped_archive, model, model_info>>

\* The assignment to the global `model` at line 64 or 78.
LoadSetModel(t) ==
    /\ srv[t].pc = "l_set_model"
    /\ model' = Some(srv[t].loaded)
    /\ SrvGoto(t, "l_set_info")
    /\ UNCHANGED <<registry, ctl, cmp, skipped_archive, model_info>>

\* The assignment to the global `model_info` at line 65 or 79-83.
LoadSetInfo(t) ==
    /\ srv[t].pc = "l_set_info"
    /\ model_info' = VersionInfo(srv[t].version, srv[t].stage)
    /\ srv' = [srv EXCEPT ![t].pc = AfterLoad(t),
                          ![t].wrote = Some(VersionInfo(srv[t].version, srv[t].stage))]
    /\ UNCHANGED <<registry, ctl, cmp, skipped_archive, model>>

\* No version registered (lines 68-71): only `model_info` is assigned.
LoadInfoNone(t) ==
    /\ srv[t].pc = "l_info_none"
    /\ model_info' = NoneInfo
    /\ srv' = [srv EXCEPT ![t].pc = AfterLoad(t), ![t].wrote = Some(NoneInfo)]
    /\ UNCHANGED <<registry, ctl, cmp, skipped_archive, model>>

\* Variant of LoadExcept that keeps the predictor loaded before.
LoadExcept_keeps_model(t) ==
    /\ srv[t].pc = "l_except"
    /\ SrvGoto(t, "l_except_info")
    /\ UNCHANGED <<registry, ctl, cmp, skipped_archive, model, model_info>>

\* The except branch, line 89: model = None.
LoadExcept(t) ==
    /\ srv[t].pc = "l_except"
    /\ model' = None
    /\ SrvGoto(t, "l_except_info")
    /\ UNCHANGED <<registry, ctl, cmp, skipped_archive, model_info>>

\* The except branch, line 90: model_info = fallback identity.
LoadExceptInfo(t) ==
    /\ srv[t].pc = "l_except_info"
    /\ model_info' = FallbackInfo
    /\ srv' = [srv EXCEPT ![t].pc = AfterLoad(t), ![t].wrote = Some(FallbackInfo)]
    /\ UNCHANGED <<registry, ctl, cmp, skipped_archive, model>>

\* ---------------------------------------------------------------- reload_model
\* The response of /reload-model reads `model_info` (line 201).
ReloadResponse(t) ==
    /\ srv[t].pc = "r_info"
    /\ srv' = [srv EXCEPT ![t].pc = "done", ![t].kind = "reloaded",
                          ![t].name = model_info.name,
                          ![t].resp_version = model_info.version]
    /\ UNCHANGED <<registry, ctl, cmp, skipped_archive, model, model_info>>

\* --------------------------------------------------------------------- predict
\* `if not model:` at line 109.
PredictCheck(t) ==
    /\ srv[t].pc = "p_check"
    /\ SrvGoto(t, IF model = None THEN "p_fb_name" ELSE "p_predict")
    /\ UNCHANGED <<registry, ctl, cmp, skipped_archive, model, model_info>>

\* The neutral default (lines 111-117): model_info is read once for the name
\* and once more for the version.
PredictFallbackName(t) ==
    /\ srv[t].pc = "p_fb_name"
    /\ srv' = [srv EXCEPT ![t].pc = "p_fb_version", ![t].kind = "fallback",
                          ![t].probability = "neutral", ![t].name = model_info.name]
    /\ UNCHANGED <<registry, ctl, cmp, skipped_archive, model, model_info>>

\* PredictionResponse declares model_version: str (line 31).  The strings the
\* source itself assigns pass; a version named by the registry (line 65 or 81)
\* is whatever the store hands out, a str or an int, and on an int the
\* response fails validation.  Lines 111-117 are outside the try, so the
\* ValidationError leaves predict unhandled (kind "raised").
PredictFallbackVersion(t) ==
    /\ srv[t].pc = "p_fb_version"
    /\ \/ srv' = [srv EXCEPT ![t].pc = "done",
                              ![t].resp_version = model_info.version]
       \/ /\ model_info.version # 0
          /\ srv' = [srv EXCEPT ![t].pc = "done", ![t].kind = "raised"]
    /\ UNCHANGED <<registry, ctl, cmp, skipped_archive, model, model_info>>

\* Lines 119-161.  model.predict(X) at line 161 reads the global `model`
\* again; on None the AttributeError is turned into HTTP 500 by the handler at
\* lines 177-178 (kind "error_unloaded").  Any other exception of the feature
\* engineering or of the predictor's predict ends in HTTP 500 as well (kind
\* "error").  `used` is the version of the predictor the probability is from.
PredictModel(t) ==
    /\ srv[t].pc = "p_predict"
    /\ \/ srv' = [srv EXCEPT ![t] =
                IF model = None
                THEN [srv[t] EXCEPT !.pc = "done", !.kind = "error_unloaded"]
                ELSE [srv[t] EXCEPT !.pc = "p_proba", !.used = model[1],
                                    !.probability = "model"]]
       \/ srv' = [srv EXCEPT ![t].pc = "done", ![t].kind = "error"]
    /\ UNCHANGED <<registry, ctl, cmp, skipped_archive, model, model_info>>

\* Lines 164-167.  model.predict_proba(X) reads the global `model` once more:
\* when that predictor has predict_proba the probability is its; when it has
\* none, raises, or `model` is None by now, the bare except keeps the
\* prediction of line 161.  An exception at line 167 ends in HTTP 500.
PredictProba(t) ==
    /\ srv[t].pc = "p_proba"
    /\ \/ /\ model # None
          /\ srv' = [srv EXCEPT ![t].pc = "p_name", ![t].used = model[1]]
       \/ SrvGoto(t, "p_name")
       \/ srv' = [srv EXCEPT ![t].pc = "done", ![t].kind = "error"]
    /\ UNCHANGED <<registry, ctl, cmp, skipped_archive, model, model_info>>

\* The response (lines 169-175): model_info["name"], then model_info["version"].
PredictName(t) ==
    /\ srv[t].pc = "p_name"
    /\ srv' = [srv EXCEPT ![t].pc = "p_version", ![t].name = model_info.name]
    /\ UNCHANGED <<registry, ctl, cmp, skipped_archive, model, model_info>>

\* On a registry version handed out as an int the response fails validation
\* (model_version: str, line 31) inside the try: HTTP 500 by lines 177-178.
PredictVersion(t) ==
    /\ srv[t].pc = "p_version"
    /\ \/ srv' = [srv EXCEPT ![t].pc = "done", ![t].kind = "ok",
                              ![t].resp_version = model_info.version]
       \/ /\ model_info.version # 0
          /\ srv' = [srv EXCEPT ![t].pc = "done", ![t].kind = "error"]
    /\ UNCHANGED <<registry, ctl, cmp, skipped_archive, model, model_info>>

\* The response has been sent; the thread takes the next request.
Finish(t) ==
    /\ srv[t].pc = "done"
    /\ srv' = [srv EXCEPT ![t] =
            [IdleSrv EXCEPT !.prev = IF srv[t].op = "reload" THEN srv[t].wrote ELSE None]]
    /\ UNCHANGED <<registry, ctl, cmp, skipped_archive, model, model_info>>

\* ------------------------------------------------------------ specifications
Work(p) ==
    \/ RegisterModel(p)
    \/ CandidateRun(p)
    \/ ProductionList(p)
    \/ ProductionRun(p)
    \/ PromoteList(p)
    \/ PromoteArchive(p)
    \/ PromoteDeploy(p)

Call(p) ==
    \/ \E r \in RunIds, m \in MetricNames, hib \in BOOLEAN :
            AutoPromoteIfBetter(p, r, m, hib)
    \/ \E v \in 1..MaxVersions, a \in BOOLEAN : PromoteToProduction(p, v, a)

\* Calls run to completion one after another; which caller makes them is
\* immaterial then, so one caller makes them all.
SeqCallers == {CHOOSE p \in Procs : \A q \in Procs : p <= q}
Next == \E p \in SeqCallers : (AllIdle /\ Call(p)) \/ Work(p) \/ Return(p)
Spec == Init /\ [][Next]_vars

\* Two callers, one call each, interleaved at every store call.  The registry
\* starts in a state sequential use leaves behind: version v registered from
\* run v, at most one version in Production.
InitRegistries ==
    UNION {{reg \in [1..n -> [stage : Stages, run_id : RunIds]] :
                /\ \A v \in 1..n : reg[v].run_id = ((v - 1) % NumRuns) + 1
                /\ Cardinality(InStage(reg, "Production")) <= 1}
           : n \in 0..(MaxVersions - 1)}

InitConc ==
    /\ registry \in InitRegistries
    /\ ctl = [p \in Procs |-> IdleCtl]
    /\ cmp = IdleCmp
    /\ skipped_archive = FALSE
    /\ ServingInit

CallConc(p) ==
    \/ \E r \in RunIds : AutoPromoteIfBetter(p, r, "auc", TRUE)
    \/ \E v \in 1..MaxVersions : PromoteToProduction(p, v, TRUE)

NextConc == \E p \in Procs : CallConc(p) \/ Work(p)
SpecConc == InitConc /\ [][NextConc]_vars

\* One evaluation of the comparison policy on arbitrary inputs.
MetricValues == 0..MaxMetric
MetricMaps == UNION {[D -> MetricValues] : D \in SUBSET MetricNames}

InitCompare ==
    /\ registry = <<>>
    /\ ctl = [p \in Procs |-> IdleCtl]
    /\ skipped_archive = FALSE
    /\ ServingInit
    /\ cmp \in [cand : MetricMaps, inc : {None} \cup {Some(m) : m \in MetricMaps},
                metric_name : MetricNames, higher_is_better : BOOLEAN,
                result : {None}]

CompareModels ==
    /\ cmp.result = None
    /\ cmp' = [cmp EXCEPT !.result =
                Some(compare(cmp.cand, cmp.inc, cmp.metric_name, cmp.higher_is_better))]
    /\ UNCHANGED <<registry, ctl, skipped_archive, serving>>

NextCompare == CompareModels
SpecCompare == InitCompare /\ [][NextCompare]_vars

\* The serving process: two request threads interleaved at every store call
\* and every access to the globals, over a registry that sequential use of
\* the promotion controller has left behind.
Serve(t) ==
    \/ StartupEvent(t)
    \/ Predict(t)
    \/ ReloadModel(t)
    \/ LoadList(t)
    \/ LoadSearch(t)
    \/ LoadModel(t)
    \/ LoadSetModel(t)
    \/ LoadSetInfo(t)
    \/ LoadInfoNone(t)
    \/ LoadExcept(t)
    \/ LoadExceptInfo(t)
    \/ ReloadResponse(t)
    \/ PredictCheck(t)
    \/ PredictFallbackName(t)
    \/ PredictFallbackVersion(t)
    \/ PredictModel(t)
    \/ PredictProba(t)
    \/ PredictName(t)
    \/ PredictVersion(t)
    \/ Finish(t)

InitServe ==
    /\ registry \in InitRegistries
    /\ ctl = [p \in Procs |-> IdleCtl]
    /\ cmp = IdleCmp
    /\ skipped_archive = FALSE
    /\ ServingInit

NextServe == \E t \in Threads : Serve(t)
SpecServe == InitServe /\ [][NextServe]_vars

\* Deployment end to end: the promotion controller makes one call, and one
\* serving thread takes requests before and after it.  Nothing runs
\* concurrently: the controller moves only while no request is being served,
\* and a request is served only while the controller is outside its call.
SeqThreads == {CHOOSE t \in Threads : \A u \in Threads : t <= u}
ServingIdle == \A t \in Threads : srv[t].pc = "idle"
PromoterQuiet == \A p \in Procs : ctl[p].pc \in {"idle", "ret", "raised"}

CallDeploy(p) ==
    \/ \E r \in RunIds : AutoPromoteIfBetter(p, r, "auc", TRUE)
    \/ \E v \in 1..MaxVersions, a \in BOOLEAN : PromoteToProduction(p, v, a)

InitDeploy == InitConc
NextDeploy ==
    \/ \E p \in SeqCallers : ServingIdle /\ (CallDeploy(p) \/ Work(p))
    \/ \E t \in SeqThreads : PromoterQuiet /\ Serve(t)
SpecDeploy == InitDeploy /\ [][NextDeploy]_vars

\* Serving against a registry that holds no version of the model name (the
\* store is a separate service: its versions were deleted, or the tracking
\* URI now points at an empty store).  The globals hold what an earlier
\* load_production_model left: nothing loaded, or the predictor of a version
\* that was registered then.  The steps that load an artifact are left out,
\* no version being there to resolve.
LeftBehind ==
    {<<None, i>> : i \in {NoneInfo, FallbackInfo}}
        \cup {<<Some(v), VersionInfo(v, st)>> :
                    v \in 1..MaxVersions, st \in {"Production", "None"}}

ServeEmpty(t) ==
    \/ Predict(t)
    \/ ReloadModel(t)
    \/ LoadList(t)
    \/ LoadSearch(t)
    \/ LoadInfoNone(t)
    \/ LoadExcept(t)
    \/ LoadExceptInfo(t)
    \/ ReloadResponse(t)
    \/ PredictCheck(t)
    \/ PredictFallbackName(t)
    \/ PredictFallbackVersion(t)
    \/ PredictModel(t)
    \/ PredictProba(t)
    \/ PredictName(t)
    \/ PredictVersion(t)
    \/ Finish(t)

InitEmpty ==
    /\ registry = <<>>
    /\ ctl = [p \in Procs |-> IdleCtl]
    /\ cmp = IdleCmp
    /\ skipped_archive = FALSE
    /\ \E left \in LeftBehind : model = left[1] /\ model_info = left[2]
    /\ srv = [t \in Threads |-> IdleSrv]

NextEmpty == \E t \in SeqThreads : ServeEmpty(t)
SpecEmpty == InitEmpty /\ [][NextEmpty]_vars

\* The promotion controller and the serving process are separate programs on
\* one registry store: one controller call interleaved, at every store call
\* and every access to the globals, with the requests of one serving thread.
NextSwap ==
    \/ \E p \in SeqCallers : CallDeploy(p) \/ Work(p)
    \/ \E t \in SeqThreads : Serve(t)
SpecSwap == InitDeploy /\ [][NextSwap]_vars

\* ================================================================== claims
Production(reg) == InStage(reg, "Production")
Returned(p, op) == ctl[p].pc = "ret" /\ ctl[p].op = op

\* ---- C1 -----------------------------------------------------------------
\* C1 as stated: when the calls run one after another, whatever their version
\* and archive_existing arguments, at most one version is in Production once
\* every call has completed.
C1_AtMostOneDeployedAnyArgs ==
    AllIdle => Cardinality(Production(registry)) <= 1

\* C1 as amended: when the calls run one after another and every promote call
\* is made with archive_existing=True, at most one version is in Production
\* (in every state, also inside a call).
C1_AtMostOneDeployed ==
    ~skipped_archive => Cardinality(Production(registry)) <= 1

\* A promote with archive_existing=True has replaced a Production incumbent.
C1_Witness ==
    /\ ~skipped_archive
    /\ \E p \in Procs :
        /\ Returned(p, "promote") /\ ctl[p].success
        /\ Production(ctl[p].pre) # {}
        /\ ctl[p].version \notin Production(ctl[p].pre)
        /\ Production(registry) = {ctl[p].version}

\* ---- C2 -----------------------------------------------------------------
\* C2: under every interleaving of the store calls of two concurrent promote
\* or auto-promote calls, no state has two versions in Production.
C2_PromotionsMutuallyExclusive ==
    Cardinality(Production(registry)) <= 1

\* ---- C3 -----------------------------------------------------------------
\* C3: when promote(v, archive_existing=True) ran alone and returned success,
\* every version other than v that was in Production before the call is
\* Archived, v is in Production, and every other version kept its stage.
C3_PromoteArchivesIncumbents ==
    \A p \in Procs :
        (Returned(p, "promote") /\ ctl[p].archive_existing /\ ctl[p].success) =>
            LET pre == ctl[p].pre
                v == ctl[p].version
            IN  /\ Len(registry) = Len(pre)
                /\ registry[v].stage = "Production"
                /\ \A w \in Versions(pre) \ {v} :
                      registry[w].stage =
                          IF pre[w].stage = "Production" THEN "Archived" ELSE pre[w].stage

\* ---- C4 -----------------------------------------------------------------
\* C4: the result of compare follows the four-step policy in order: candidate
\* lacks the metric -> false; else incumbent absent -> true; else incumbent
\* lacks the metric -> true; else strict inequality in the direction of
\* higher_is_better, equal values giving false.
C4_CompareFollowsPolicy ==
    cmp.result # None =>
        LET r == cmp.result[1]
            m == cmp.metric_name
            candHas == m \in DOMAIN cmp.cand
            incHas == cmp.inc # None /\ m \in DOMAIN cmp.inc[1]
        IN  /\ ~candHas => (r = FALSE)
            /\ (candHas /\ cmp.inc = None) => (r = TRUE)
            /\ (candHas /\ cmp.inc # None /\ ~incHas) => (r = TRUE)
            /\ (candHas /\ incHas /\ cmp.higher_is_better) =>
                    (r = (cmp.cand[m] > cmp.inc[1][m]))
            /\ (candHas /\ incHas /\ ~cmp.higher_is_better) =>
                    (r = (cmp.cand[m] < cmp.inc[1][m]))
            /\ (candHas /\ incHas /\ cmp.cand[m] = cmp.inc[1][m]) => (r = FALSE)

\* A tie has been evaluated with lower-is-better and found not better.
C4_Witness ==
    /\ cmp.result = Some(FALSE)
    /\ ~cmp.higher_is_better
    /\ cmp.metric_name \in DOMAIN cmp.cand
    /\ cmp.inc # None
    /\ cmp.metric_name \in DOMAIN cmp.inc[1]
    /\ cmp.cand[cmp.metric_name] = cmp.inc[1][cmp.metric_name]

\* ---- C5 -----------------------------------------------------------------
\* C5: every auto_promote_if_better call that returns has registered exactly
\* one new version (the next number, from the given run); it returns that
\* version if and only if the version is in Production when the call returns,
\* and when it returns None the new version is in stage None.
C5_AutoPromoteReturn ==
    \A p \in Procs :
        Returned(p, "auto") =>
            LET pre == ctl[p].pre
                v == ctl[p].version
            IN  /\ Len(registry) = Len(pre) + 1
                /\ v = Len(pre) + 1
                /\ registry[v].run_id = ctl[p].run_id
                /\ \A w \in Versions(pre) : registry[w].run_id = pre[w].run_id
                /\ ctl[p].ret \in {None, Some(v)}
                /\ (ctl[p].ret = Some(v)) <=> (registry[v].stage = "Production")
                /\ (ctl[p].ret = None) => (registry[v].stage = "None")

\* An auto-promote returned None although the comparison favoured the
\* candidate: the promotion failed in the store and the version stayed None.
C5_Witness ==
    \E p \in Procs :
        /\ Returned(p, "auto") /\ ctl[p].is_better /\ ctl[p].ret = None
        /\ registry[ctl[p].version].stage = "None"

\* ---- C6 -----------------------------------------------------------------
\* The Production version the comparison looks at, as a set (empty if none).
Incumbent(reg) == IF Production(reg) = {} THEN {} ELSE {MaxOf(Production(reg))}
NotStrictlyBetter(c, inc_run) ==
    /\ c.metric_name \in DOMAIN RunMetrics(c.run_id)
    /\ c.metric_name \in DOMAIN RunMetrics(inc_run)
    /\ IF c.higher_is_better
       THEN RunMetrics(c.run_id)[c.metric_name] <= RunMetrics(inc_run)[c.metric_name]
       ELSE RunMetrics(c.run_id)[c.metric_name] >= RunMetrics(inc_run)[c.metric_name]

\* C6: when a version is in Production and auto_promote_if_better is called
\* with a candidate whose target metric is worse than or equal to the
\* incumbent's, the call returns None, the incumbent is still in Production
\* and no version that existed before the call has changed stage.
C6_WorseCandidateChangesNothing ==
    \A p \in Procs :
        (Returned(p, "auto") /\ Incumbent(ctl[p].pre) # {}) =>
            \A i \in Incumbent(ctl[p].pre) :
                NotStrictlyBetter(ctl[p], ctl[p].pre[i].run_id) =>
                    /\ ctl[p].ret = None
                    /\ registry[i].stage = "Production"
                    /\ \A w \in Versions(ctl[p].pre) :
                          registry[w].stage = ctl[p].pre[w].stage

\* ---- C7 -----------------------------------------------------------------
C7_Case(p) ==
    /\ Returned(p, "auto")
    /\ Production(ctl[p].pre) = {}
    /\ ctl[p].metric_name \in DOMAIN RunMetrics(ctl[p].run_id)
C7_Promoted(p) ==
    /\ ctl[p].ret = Some(ctl[p].version)
    /\ registry[ctl[p].version].stage = "Production"
    /\ get_production_model_metrics(registry) = Some(RunMetrics(ctl[p].run_id))

\* C7 as stated: with no version in Production and a candidate that carries
\* the target metric, auto_promote_if_better deploys the candidate, returns
\* its version, and get_production_model_metrics then returns the candidate's
\* metrics mapping.
C7_FirstCandidatePromotedAlways ==
    \A p \in Procs : C7_Case(p) => C7_Promoted(p)

\* promote_to_production was entered and returned False, which it does only
\* from its except branch (lines 178-180), a store call of the promotion
\* having failed.
C7_PromotionFailed(p) == ctl[p].ended_at # "none" /\ ~ctl[p].success
C7_LeftUnstaged(p) ==
    /\ ctl[p].ret = None
    /\ registry[ctl[p].version].stage = "None"
    /\ Production(registry) = {}
    /\ get_production_model_metrics(registry) = None
    /\ \A w \in Versions(ctl[p].pre) : registry[w].stage = ctl[p].pre[w].stage

\* C7 as amended: with no version in Production and a candidate that carries
\* the target metric, every auto_promote_if_better call that returns has
\* attempted the promotion (also when the incumbent lookup failed).  When no
\* store call of the promotion fails, the candidate is deployed, its version
\* is returned and get_production_model_metrics then returns the candidate's
\* metrics; when one fails, the call returns None, the candidate stays in
\* stage None and no version is in Production.
C7_FirstCandidatePromoted ==
    \A p \in Procs :
        C7_Case(p) =>
            /\ ctl[p].is_better /\ ctl[p].ended_at # "none"
            /\ IF C7_PromotionFailed(p) THEN C7_LeftUnstaged(p) ELSE C7_Promoted(p)

\* A first candidate has been promoted by a call whose incumbent lookup
\* failed in the store.
C7_Witness ==
    \E p \in Procs :
        /\ C7_Case(p) /\ ctl[p].failed /\ ~C7_PromotionFailed(p)
        /\ C7_Promoted(p)

\* ---- C8 -----------------------------------------------------------------
\* C8: inside auto_promote_if_better the incumbent lookup yields None only
\* when no version is in Production, and a candidate is never promoted over a
\* Production incumbent whose metric is better or equal.
C8_AbsentOnlyWhenNoneDeployed ==
    \A p \in Procs :
        /\ (/\ ctl[p].op = "auto"
            /\ ctl[p].pc \in {"promote_list", "promote_archive", "promote_deploy", "ret"}
            /\ ctl[p].metric_name \in DOMAIN RunMetrics(ctl[p].run_id)
            /\ ctl[p].prod_metrics = None)
                => Production(ctl[p].pre) = {}
        /\ (Returned(p, "auto") /\ ctl[p].ret # None) =>
                \A i \in Incumbent(ctl[p].pre) :
                    ~NotStrictlyBetter(ctl[p], ctl[p].pre[i].run_id)

\* ---- C9 -----------------------------------------------------------------
\* C9: in every step a version's stage either stays or moves None ->
\* Production or Production -> Archived; in particular an Archived version
\* never returns to Production.
C9_StagesMoveForward ==
    [][\A v \in Versions(registry) :
          \/ registry'[v].stage = registry[v].stage
          \/ registry[v].stage = "None" /\ registry'[v].stage = "Production"
          \/ registry[v].stage = "Production" /\ registry'[v].stage = "Archived"]_vars

\* ---- C10 ----------------------------------------------------------------
\* C10: a predict that answered from a predictor reports, as the response's
\* identity, the model name and the version of the very predictor that
\* produced the probability, whatever other requests reload concurrently.
C10_ResponseIdentityMatchesPredictor ==
    \A t \in Threads :
        (srv[t].pc = "done" /\ srv[t].op = "predict" /\ srv[t].kind = "ok") =>
            /\ srv[t].name = "MODEL_NAME"
            /\ srv[t].resp_version = srv[t].used

\* ---- C11 ----------------------------------------------------------------
FallbackNames == {"none", "fallback"}
PredictDone(t) == srv[t].pc = "done" /\ srv[t].op = "predict"

\* C11: no predict request ends in a server error because no predictor is
\* loaded, whatever other requests reload meanwhile: a predict that found no
\* predictor answers with the neutral default under a fallback identity.
C11_NoErrorWithoutPredictor ==
    \A t \in Threads :
        PredictDone(t) =>
            /\ srv[t].kind # "error_unloaded"
            /\ srv[t].kind = "fallback" =>
                  srv[t].probability = "neutral" /\ srv[t].name \in FallbackNames

\* ---- C12 ----------------------------------------------------------------
\* C12: a predict made by a caller right after its own /reload-model reports
\* the version identity that reload assigned, whatever other callers reload
\* concurrently (a predict that ends in HTTP 500 by an exception of the
\* predictor itself or of the response's validation reports no identity and
\* is left aside).
C12_PredictAfterReloadSameIdentity ==
    \A t \in Threads :
        (PredictDone(t) /\ srv[t].prev # None /\ srv[t].kind # "error") =>
            /\ srv[t].kind # "error_unloaded"
            /\ srv[t].name = srv[t].prev[1].name
            /\ srv[t].resp_version = srv[t].prev[1].version

\* ---- C13 ----------------------------------------------------------------
\* A promotion of ctl[p].version has completed, and the predict that started
\* after it has answered without its load failing and without an exception
\* of the feature engineering, of the predictor or of the response's
\* validation (HTTP 500, lines 177-178).
C13_Case(p, t) ==
    /\ ctl[p].pc = "ret" /\ ctl[p].success
    /\ PredictDone(t) /\ srv[t].wrote # Some(FallbackInfo)
    /\ srv[t].kind # "error"
C13_Tagged(p, t) ==
    /\ srv[t].kind = "ok"
    /\ srv[t].name = "MODEL_NAME"
    /\ srv[t].resp_version = ctl[p].version
    /\ srv[t].used = ctl[p].version

\* C13 as stated: once any promotion of version v has completed, a predict
\* that starts afterwards, alone and with a loadable artifact, answers from
\* the predictor of v and tags the response with v.
C13_StalenessFreeAnyArgs ==
    \A p \in Procs, t \in Threads : C13_Case(p, t) => C13_Tagged(p, t)

\* C13 as amended: the same, for promotions made with archive_existing=True.
C13_StalenessFree ==
    \A p \in Procs, t \in Threads :
        (C13_Case(p, t) /\ ctl[p].archive_existing) => C13_Tagged(p, t)

\* A predict after a promotion that replaced a Production incumbent is tagged
\* with the promoted version.
C13_Witness ==
    \E p \in Procs, t \in Threads :
        /\ C13_Case(p, t) /\ ctl[p].archive_existing /\ C13_Tagged(p, t)
        /\ Production(ctl[p].pre) # {}
        /\ ctl[p].version \notin Production(ctl[p].pre)

\* ---- C14 ----------------------------------------------------------------
\* C14: when the registry queries of load_production_model return, the
\* version resolved is a Production version if there is one; otherwise, if a
\* version is registered, the one with the highest number; and the "no
\* models" identity is chosen exactly when no version is registered.
C14_ResolvesActiveVersion ==
    \A t \in Threads :
        /\ srv[t].pc = "l_load" =>
              IF Production(registry) # {}
              THEN srv[t].version \in Production(registry) /\ srv[t].stage = "Production"
              ELSE /\ registry # <<>>
                   /\ srv[t].version = MaxOf(Versions(registry))
                   /\ srv[t].stage = "None"
        /\ srv[t].pc = "l_info_none" => registry = <<>>
        /\ srv[t].wrote = Some(NoneInfo) => registry = <<>>

\* With two versions registered and none in Production, the second is resolved.
C14_Witness ==
    \E t \in Threads :
        /\ srv[t].pc = "l_load"
        /\ Production(registry) = {}
        /\ Len(registry) >= 2
        /\ srv[t].version = Len(registry)

\* ---- C15 ----------------------------------------------------------------
\* C15 as stated, last part: the predict that follows a failed reload returns
\* the neutral default.
C15_FollowingPredictNeutral ==
    \A t \in Threads :
        (PredictDone(t) /\ srv[t].prev = Some(FallbackInfo)) =>
            srv[t].kind = "fallback" /\ srv[t].probability = "neutral"

\* What a predict answers, by what its own load_production_model did: the
\* neutral default under the fallback identity when the load failed, the
\* neutral default under the identity "none" when no version was found, and
\* otherwise the probability of the predictor it loaded under that version's
\* identity, or HTTP 500 when the feature engineering, the predictor or the
\* validation of the response raised.
C15_AnswersFromOwnLoad(t) ==
    IF srv[t].wrote \in {Some(FallbackInfo), Some(NoneInfo)}
    THEN /\ srv[t].kind = "fallback" /\ srv[t].probability = "neutral"
         /\ srv[t].used = 0
         /\ srv[t].name = srv[t].wrote[1].name
    ELSE \/ srv[t].kind = "error"
         \/ /\ srv[t].kind = "ok" /\ srv[t].probability = "model"
            /\ srv[t].wrote # None
            /\ srv[t].name = "MODEL_NAME"
            /\ srv[t].resp_version = srv[t].wrote[1].version
            /\ srv[t].used = srv[t].wrote[1].version

\* C15 as amended: when a store call fails during load_production_model, the
\* load does not raise, no predictor is held and the identity is the fallback
\* one, whatever was loaded before (at startup as in a request), and
\* /reload-model answers normally.  The predict that follows a failed reload
\* loads again and answers from its own load: the neutral default when that
\* load fails too or finds no version, the loaded predictor's probability (or
\* HTTP 500 when the predictor or the response's validation raises) when it
\* loads a version.
C15_FailedLoadFallsBack ==
    \A t \in Threads :
        /\ srv[t].wrote = Some(FallbackInfo) =>
              /\ model = None
              /\ model_info = FallbackInfo
              /\ (srv[t].pc = "done" /\ srv[t].op = "reload") =>
                    srv[t].kind = "reloaded" /\ srv[t].name = "fallback"
        /\ (PredictDone(t) /\ srv[t].prev = Some(FallbackInfo)) =>
              C15_AnswersFromOwnLoad(t)

\* The predict that follows a failed reload fails to load as well and gives
\* the neutral default under the fallback identity.
C15_Witness ==
    \E t \in Threads :
        /\ PredictDone(t) /\ srv[t].prev = Some(FallbackInfo)
        /\ srv[t].wrote = Some(FallbackInfo)
        /\ srv[t].kind = "fallback" /\ srv[t].name = "fallback"

\* ---- C16 ----------------------------------------------------------------
\* C16: when a store call of a reload times out (it raises, like every store
\* failure) while a predictor is loaded, the failure handling leaves the
\* predictor and its identity as they were.
C16_TimeoutKeepsState ==
    [][\A t \in Threads :
          (srv[t].pc = "l_except" /\ model # None) =>
              (model' = model /\ model_info' = model_info)]_vars

\* ---- C17 ----------------------------------------------------------------
\* C17: with no version registered for the model name, whatever the serving
\* globals held before, every predict answers with the neutral default
\* (fallback, 0.5, false) without calling a predictor and without an error.
C17_EmptyRegistryFallback ==
    \A t \in Threads :
        PredictDone(t) =>
            /\ srv[t].kind = "fallback"
            /\ srv[t].probability = "neutral"
            /\ srv[t].used = 0

\* ---- C18 ----------------------------------------------------------------
\* What a single load_production_model leaves in the two globals.
OneReloadWrote(m, info) ==
    \/ m = None /\ info \in {NoneInfo, FallbackInfo}
    \/ m # None /\ info.name = "MODEL_NAME" /\ info.version = m[1]
ServingQuiet == \A t \in Threads : srv[t].pc \in {"idle", "done"}

\* C18: once all concurrent reloads have completed, predictor and identity
\* are those one single reload wrote, never one reload's predictor under
\* another reload's identity.
C18_ReloadsRaceHarmlessly ==
    ServingQuiet => OneReloadWrote(model, model_info)

\* ---- C19 ----------------------------------------------------------------
Deployed(reg, v) == VersionExists(reg, v) /\ reg[v].stage = "Production"
InPromote(p) ==
    \/ ctl[p].pc \in {"promote_list", "promote_archive", "promote_deploy"}
    \/ ctl[p].pc = "ret" /\ ctl[p].ended_at # "none"

\* A promote with archiving, entered with one Production incumbent other
\* than the version being promoted.
C19_Case(p) ==
    /\ InPromote(p) /\ ctl[p].archive_existing
    /\ Cardinality(Production(ctl[p].pre)) = 1
    /\ ctl[p].version \notin Production(ctl[p].pre)

\* C19: inside promote(v, archive_existing=True) with a Production incumbent,
\* the incumbent is archived before v is deployed: when the call is about to
\* deploy v no version is in Production, and in no state of the call are the
\* incumbent and v in Production together.
C19_ArchiveBeforeDeploy ==
    \A p \in Procs :
        C19_Case(p) =>
            \A i \in Production(ctl[p].pre) :
                /\ ~(registry[i].stage = "Production" /\ Deployed(registry, ctl[p].version))
                /\ ctl[p].pc = "promote_deploy" =>
                      registry[i].stage = "Archived" /\ Production(registry) = {}
                /\ (ctl[p].pc = "ret" /\ ctl[p].success) =>
                      registry[i].stage = "Archived"
                          /\ Production(registry) = {ctl[p].version}

\* The window: the incumbent is archived and v is not yet deployed.
C19_Witness ==
    \E p \in Procs :
        /\ C19_Case(p) /\ ctl[p].pc = "promote_deploy"
        /\ VersionExists(registry, ctl[p].version)
        /\ Production(registry) = {}

\* ---- C20 ----------------------------------------------------------------
\* Inside auto_promote_if_better, promote_to_production reached the
\* transition of the candidate after archiving the one incumbent, and the
\* transition did not take place.
C20_Case(p) ==
    /\ Returned(p, "auto") /\ ctl[p].ended_at = "promote_deploy"
    /\ registry[ctl[p].version].stage # "Production"
    /\ Cardinality(Production(ctl[p].pre)) = 1

\* C20: when the store fails between archiving the incumbent and deploying
\* the candidate, promote reports failure and nothing is rolled back: the
\* incumbent stays Archived, the candidate stays in stage None, no version is
\* in Production, every other version keeps its stage, and
\* auto_promote_if_better returns None.
C20_NoRollbackOnFailure ==
    \A p \in Procs :
        C20_Case(p) =>
            /\ ~ctl[p].success
            /\ ctl[p].ret = None
            /\ registry[ctl[p].version].stage = "None"
            /\ Production(registry) = {}
            /\ \A w \in Versions(ctl[p].pre) :
                  registry[w].stage =
                      IF ctl[p].pre[w].stage = "Production" THEN "Archived"
                      ELSE ctl[p].pre[w].stage

\* Such a failed promotion, with a version besides the incumbent registered.
C20_Witness ==
    \E p \in Procs :
        /\ C20_Case(p) /\ ~ctl[p].success
        /\ Len(ctl[p].pre) >= 2
        /\ Production(registry) = {}

\* ---- C21 ----------------------------------------------------------------
\* C21: whenever a load by the one serving thread has completed with a
\* predictor loaded, the predictor is the artifact of the version the load
\* recorded in model_info, also when a promote call changes the Production
\* version between the load's registry query and its artifact load.
C21_PredictorMatchesIdentity ==
    \A t \in Threads :
        (/\ srv[t].wrote # None
         /\ srv[t].wrote[1].name = "MODEL_NAME"
         /\ srv[t].op = "reload" /\ srv[t].pc = "done") =>
            /\ model_info = srv[t].wrote[1]
            /\ model = Some(model_info.version)

\* ---- C22 ----------------------------------------------------------------
\* The Production version of reg is the one version in Production and its
\* metric m is at least that of every registered version (all of which carry
\* m); an empty registry counts.
Dominates(reg, m) ==
    \/ reg = <<>>
    \/ /\ \A w \in Versions(reg) : HasMetric(reg[w].run_id, m)
       /\ Cardinality(Production(reg)) = 1
       /\ \A i \in Production(reg), w \in Versions(reg) :
              MetricValue(reg[i].run_id, m) >= MetricValue(reg[w].run_id, m)

\* An auto_promote_if_better call with higher_is_better=True and a candidate
\* carrying the metric has returned without any store call failing, from a
\* registry that earlier calls of the same kind left behind.
C22_Case(p) ==
    /\ Returned(p, "auto") /\ ~ctl[p].failed
    /\ ctl[p].higher_is_better
    /\ HasMetric(ctl[p].run_id, ctl[p].metric_name)
    /\ Dominates(ctl[p].pre, ctl[p].metric_name)

\* C22: in a sequence of such calls, starting from the empty registry, each
\* call keeps the Production version's metric at or above that of every
\* registered version, and a promotion replaces the incumbent by a version
\* whose metric is strictly greater (induction over the calls: the empty
\* registry is the base, this is the step).
C22_DeployedMetricOnlyImproves ==
    \A p \in Procs :
        C22_Case(p) =>
            /\ registry # <<>>
            /\ Dominates(registry, ctl[p].metric_name)
            /\ ctl[p].ret # None =>
                  /\ Production(registry) = {ctl[p].version}
                  /\ \A i \in Production(ctl[p].pre) :
                        MetricValue(ctl[p].run_id, ctl[p].metric_name)
                            > MetricValue(ctl[p].pre[i].run_id, ctl[p].metric_name)
            /\ ctl[p].ret = None =>
                  /\ Production(registry) = Production(ctl[p].pre)
                  /\ Production(registry) # {}

\* A strictly better candidate has replaced an incumbent.
C22_Witness ==
    \E p \in Procs :
        /\ C22_Case(p) /\ ctl[p].ret # None
        /\ Production(ctl[p].pre) # {}
        /\ Production(registry) = {ctl[p].version}

\* ---- C23 ----------------------------------------------------------------
\* C23: an auto_promote_if_better call made with the run id of the version
\* currently in Production (either direction of the metric) returns None,
\* registers one more version in stage None and changes the stage of no
\* existing version, so the same version stays in Production.
C23_RepeatedRunNotPromoted ==
    \A p \in Procs :
        Returned(p, "auto") =>
            \A i \in Incumbent(ctl[p].pre) :
                ctl[p].run_id = ctl[p].pre[i].run_id =>
                    /\ ctl[p].ret = None
                    /\ Len(registry) = Len(ctl[p].pre) + 1
                    /\ registry[ctl[p].version].stage = "None"
                    /\ \A w \in Versions(ctl[p].pre) :
                          registry[w].stage = ctl[p].pre[w].stage

====
